---- MODULE Spec2Model ----
(***************************************************************************)
(* A model of gerrit-commit-extractor: the credential loader               *)
(* (getGerritCredentials), the paginated change fetcher                    *)
(* (fetchMergedChanges) and the orchestrator / Markdown renderer (main).   *)
(*                                                                         *)
(* Text is modelled as a sequence of tokens.  Wherever the code inspects   *)
(* text character by character (the .gitcookies file, the server URL, the  *)
(* host name) every token is one character; literal chunks of a message or *)
(* of the Markdown document are one token each.                            *)
(***************************************************************************)
EXTENDS Integers, Sequences, FiniteSets, TLC

\* ------------------------------------------------------------------ bounds

\* Most lines a .gitcookies file holds in the model.
MaxLines == 2

\* Largest configured page size (API_FETCH_LIMIT ranges over 1..MaxPageSize).
MaxPageSize == 2

\* Most changes the server hands out during one call of fetchMergedChanges.
MaxTotal == 5

\* The wall clock runs from 0 to MaxClock seconds.
MaxClock == 2

\* Most times the program is started (SpecRerun only).
MaxRuns == 2

\* ------------------------------------------------------- program constants

DAYS_TO_LOOK_BACK == 180

CL_OWNER == "you@gmail.com"

\* ------------------------------------------------- JavaScript string library

TAB == "\t"

NL == "\n"

Whitespace == {" ", TAB, NL, "\r"}

\* s.startsWith(p)
StartsWith(s, p) ==
    /\ Len(p) <= Len(s)
    /\ SubSeq(s, 1, Len(p)) = p

\* s.endsWith(p)
EndsWith(s, p) ==
    /\ Len(p) <= Len(s)
    /\ SubSeq(s, Len(s) - Len(p) + 1, Len(s)) = p

\* s.substring(n): the text from the 0-based index n on.
Substring(s, n) ==
    SubSeq(s, n + 1, Len(s))

\* s.trim()
RECURSIVE TrimStart(_)
TrimStart(s) ==
    IF s # <<>> /\ Head(s) \in Whitespace THEN TrimStart(Tail(s)) ELSE s

RECURSIVE TrimEnd(_)
TrimEnd(s) ==
    IF s # <<>> /\ s[Len(s)] \in Whitespace
    THEN TrimEnd(SubSeq(s, 1, Len(s) - 1))
    ELSE s

Trim(s) ==
    TrimEnd(TrimStart(s))

\* s.split(sep) for a one-character separator: always at least one piece.
RECURSIVE Split(_, _)
Split(s, sep) ==
    IF \A i \in 1..Len(s) : s[i] # sep
    THEN <<s>>
    ELSE LET i == CHOOSE k \in 1..Len(s) :
                      s[k] = sep /\ \A j \in 1..(k - 1) : s[j] # sep
         IN  <<SubSeq(s, 1, i - 1)>> \o Split(SubSeq(s, i + 1, Len(s)), sep)

\* s.split(sep, limit): the first `limit` pieces of s.split(sep); what follows
\* them is dropped, not kept in the last piece.
SplitLimit(s, sep, limit) ==
    LET all == Split(s, sep)
    IN  SubSeq(all, 1, IF Len(all) < limit THEN Len(all) ELSE limit)

\* Whether p occurs in s.
Includes(s, p) ==
    \E i \in 0..(Len(s) - Len(p)) : SubSeq(s, i + 1, i + Len(p)) = p

\* pieces.join(sep)
RECURSIVE Join(_, _)
Join(pieces, sep) ==
    IF pieces = <<>> THEN <<>>
    ELSE IF Len(pieces) = 1 THEN pieces[1]
    ELSE pieces[1] \o <<sep>> \o Join(Tail(pieces), sep)

\* ------------------------------------------------------------ URL parsing

ToLowerChar(c) ==
    IF c = "A" THEN "a" ELSE IF c = "B" THEN "b" ELSE c

\* The authority of an https URL: the text between "https://" and the first "/".
UrlAuthority(url) ==
    Split(Substring(url, 1), "/")[1]

\* Whether new URL(url) succeeds: the URL is absolute and names a host.
UrlParses(url) ==
    /\ url # <<>>
    /\ url[1] = "https://"
    /\ UrlAuthority(url) # <<>>

\* new URL(url).hostname: the host, in lower case.
UrlHostname(url) ==
    [i \in 1..Len(UrlAuthority(url)) |-> ToLowerChar(UrlAuthority(url)[i])]

\* ------------------------------------------------------------------ state

VARIABLES
    GERRIT_SERVER_URL,  \* config.ts: the configured server URL
    API_FETCH_LIMIT,    \* config.ts: the configured page size
    clock,              \* the wall clock, in seconds
    run,                \* which start of the program this is
    pc,                 \* where main stands
    exitCode,           \* the process's exit status, -1 while it runs
    targetHost,         \* getGerritCredentials: targetHost (<<>> until assigned)
    lines,              \* getGerritCredentials: lines
    lineIdx,            \* getGerritCredentials: the position of the for loop
    matched,            \* history: the lines for which hostMatches was true
    credFailure,        \* history: which throw of getGerritCredentials fired
    credError,          \* the message of the error getGerritCredentials threw
    credentials,        \* main: gerritUsername, gerritHttpPassword
    afterDate,          \* main: afterDate
    allChanges,         \* fetchMergedChanges: allChanges
    start,              \* fetchMergedChanges: start
    hasMore,            \* fetchMergedChanges: hasMore
    requests,           \* history: the requests this run issued, in order
    pagesServed,        \* history: the pages the server answered them with
    failedResponse,     \* history: the non-success response the server gave
    fetchError,         \* the message of the error fetchMergedChanges threw
    mergedChanges,      \* main: mergedChanges
    markdownContent,    \* main: markdownContent
    renderedAt,         \* history: the clock when the document was rendered
    warnings,           \* the Change-Ids console.warn was called for
    outputFile,         \* the content of the output file (<<>>: none)
    writes,             \* history: completed writes of the output file, this run
    prevRender          \* history: the previous run's rendering

config == <<GERRIT_SERVER_URL, API_FETCH_LIMIT>>

credLocals == <<targetHost, lines, lineIdx, matched, credFailure, credError>>

fetchLocals == <<allChanges, start, hasMore, requests, pagesServed,
                 failedResponse, fetchError>>

renderVars == <<mergedChanges, markdownContent, renderedAt, warnings>>

fileVars == <<outputFile, writes>>

vars == <<config, clock, run, pc, exitCode, credLocals, credentials, afterDate,
          fetchLocals, renderVars, fileVars, prevRender>>

\* --------------------------------------------------------- input universes

\* The configured server URLs: two that parse (the second with a path and an
\* upper-case host) and one without a scheme, which new URL() rejects.
UrlUniverse ==
    { <<"https://", "a", ".", "b">>,
      <<"https://", "A", ".", "b", "/">>,
      <<"a", ".", "b">> }

\* One .gitcookies record.
CookieLine(domain, name, value) ==
    Join(<<domain, <<"T">>, <<"/">>, <<"T">>, <<"0">>, name, value>>, TAB)

DomainPatterns ==
    { <<"a", ".", "b">>, <<".", "a", ".", "b">>, <<".", "b">>, <<"b">>,
      <<".", "x">> }

CookieValues ==
    { <<"u", "=", "p">>, <<"u", "=", "p", "=", "q">>, <<"=", "p">>,
      <<"u", "=">>, <<"u">> }

\* The lines a .gitcookies file is made of: records that vary the domain
\* pattern, the cookie name and the value, a record with 6 and one with 8
\* fields, a comment, and three kinds of blank line.
LineUniverse ==
    { CookieLine(d, <<"o">>, <<"u", "=", "p">>) : d \in DomainPatterns }
    \cup { CookieLine(<<"a", ".", "b">>, <<"o">>, v) : v \in CookieValues }
    \cup { CookieLine(<<"a", ".", "b">>, <<"x">>, <<"u", "=", "p">>),
           Join(<<<<"a", ".", "b">>, <<"T">>, <<"/">>, <<"T">>, <<"o">>,
                  <<"u", "=", "p">>>>, TAB),
           CookieLine(<<"a", ".", "b">>, <<"o">>, <<"u", "=", "p", TAB, "z">>),
           <<"#">> \o CookieLine(<<"a", ".", "b">>, <<"o">>, <<"u", "=", "p">>),
           <<>>,
           <<" ">>,
           <<TAB, TAB, TAB, TAB, TAB, TAB>> }

RECURSIVE SeqsUpTo(_, _)
SeqsUpTo(S, n) ==
    IF n = 0 THEN {<<>>}
    ELSE LET shorter == SeqsUpTo(S, n - 1)
         IN  shorter \cup { Append(q, x) : q \in shorter, x \in S }

\* The contents of the .gitcookies file: up to MaxLines lines, joined by "\n".
FileUniverse ==
    { Join(ls, NL) : ls \in SeqsUpTo(LineUniverse, MaxLines) }

\* A file with one record for a.b, and a file with a comment and no record.
SmallFileUniverse ==
    { CookieLine(<<"a", ".", "b">>, <<"o">>, <<"u", "=", "p">>),
      <<"#">> }

NoCredentials == [username |-> <<>>, httpPassword |-> <<>>]

\* ---------------------------------------------------- getGerritCredentials

\* The example record the error messages end with (config.ts:27, 60).
ExampleRecord(host) ==
    host \o <<TAB, "TRUE", TAB, "/", TAB, "TRUE", TAB, "<timestamp>", TAB, "o",
              TAB, "<username>=<password>">>

GitcookiesPath == <<"~/.gitcookies">>

\* config.ts:20
InvalidUrlMessage(url) ==
    <<"Invalid GERRIT_SERVER_URL format: ">> \o url
        \o <<". Cannot parse hostname.">>

\* config.ts:24-27
FileNotFoundMessage(host) ==
    <<"Error: .gitcookies file not found at ">> \o GitcookiesPath
        \o <<".\nPlease ensure it exists and is configured for your Gerrit server.\nExample line for ">>
        \o host \o <<":\n">> \o ExampleRecord(host)

\* A message that names the host and leaves the example out.
NotFoundMessage_NoExample(host, url) ==
    <<"Credentials for ">> \o host \o <<" (from ">> \o url
        \o <<") not found in ">> \o GitcookiesPath
        \o <<" with cookie name 'o'.">>

\* config.ts:59-60
NotFoundMessage(host, url) ==
    <<"Credentials for ">> \o host \o <<" (from ">> \o url
        \o <<") not found in ">> \o GitcookiesPath
        \o <<" with cookie name 'o'.\nEnsure a line exists like: ">>
        \o ExampleRecord(host)

\* config.ts:34: the line is a comment or is blank.
SkippedLine(line) ==
    StartsWith(line, <<"#">>) \/ Trim(line) = <<>>

\* A match that takes every pattern for a suffix, dotted or not.
HostMatches_AnySuffix(domainInCookie, host) ==
    \/ EndsWith(host, domainInCookie)
    \/ /\ StartsWith(domainInCookie, <<".">>)
       /\ host = Substring(domainInCookie, 1)

\* config.ts:48-49
HostMatches(domainInCookie, host) ==
    \/ /\ StartsWith(domainInCookie, <<".">>)
       /\ \/ EndsWith(host, domainInCookie)
          \/ host = Substring(domainInCookie, 1)
    \/ /\ ~StartsWith(domainInCookie, <<".">>)
       /\ host = domainInCookie

\* config.ts:52: const [username, password] = cookieValue.split('=', 2); a
\* piece the split does not yield is undefined.
CookiePair(cookieValue) ==
    SplitLimit(cookieValue, "=", 2)

\* config.ts:53: username && password (neither undefined nor empty).
PairUsable(pair) ==
    /\ Len(pair) = 2
    /\ pair[1] # <<>>
    /\ pair[2] # <<>>

\* main, line 16, and config.ts:17-21: the URL is parsed for its host name.
CredParseUrl ==
    /\ pc = "start"
    /\ IF UrlParses(GERRIT_SERVER_URL)
       THEN /\ targetHost' = UrlHostname(GERRIT_SERVER_URL)
            /\ pc' = "credFile"
            /\ UNCHANGED <<credFailure, credError>>
       ELSE /\ credFailure' = "bad_url"
            /\ credError' = InvalidUrlMessage(GERRIT_SERVER_URL)
            /\ pc' = "credCatch"
            /\ UNCHANGED targetHost
    /\ UNCHANGED <<config, clock, run, exitCode, lines, lineIdx, matched,
                   credentials, afterDate, fetchLocals, renderVars, fileVars,
                   prevRender>>

\* config.ts:23-31: the file is missing, or it is read and split into lines.
CredReadFile(files) ==
    /\ pc = "credFile"
    /\ \/ /\ credFailure' = "no_file"
          /\ credError' = FileNotFoundMessage(targetHost)
          /\ pc' = "credCatch"
          /\ UNCHANGED <<lines, lineIdx>>
       \/ \E content \in files :
            /\ lines' = Split(content, NL)
            /\ lineIdx' = 1
            /\ pc' = "credLoop"
            /\ UNCHANGED <<credFailure, credError>>
    /\ UNCHANGED <<config, clock, run, exitCode, targetHost, matched,
                   credentials, afterDate, fetchLocals, renderVars, fileVars,
                   prevRender>>

\* config.ts:33-57: one iteration of the loop over the lines.
CredLine ==
    /\ pc = "credLoop"
    /\ lineIdx <= Len(lines)
    /\ LET line == lines[lineIdx]
           parts == Split(line, TAB)
           hostMatches == HostMatches(parts[1], targetHost)
           pair == CookiePair(parts[7])
       IN  IF SkippedLine(line) \/ Len(parts) # 7
           THEN /\ lineIdx' = lineIdx + 1
                /\ UNCHANGED <<matched, credentials, pc>>
           ELSE /\ matched' = IF hostMatches THEN matched \cup {lineIdx}
                                             ELSE matched
                /\ IF hostMatches /\ parts[6] = <<"o">> /\ PairUsable(pair)
                   THEN /\ credentials' = [username |-> pair[1],
                                           httpPassword |-> pair[2]]
                        /\ pc' = "credReturned"
                        /\ UNCHANGED lineIdx
                   ELSE /\ lineIdx' = lineIdx + 1
                        /\ UNCHANGED <<credentials, pc>>
    /\ UNCHANGED <<config, clock, run, exitCode, targetHost, lines,
                   credFailure, credError, afterDate, fetchLocals, renderVars,
                   fileVars, prevRender>>

\* config.ts:59-60: no line yielded a credential.
CredNotFound ==
    /\ pc = "credLoop"
    /\ lineIdx > Len(lines)
    /\ credFailure' = "no_record"
    /\ credError' = NotFoundMessage(targetHost, GERRIT_SERVER_URL)
    /\ pc' = "credCatch"
    /\ UNCHANGED <<config, clock, run, exitCode, targetHost, lines, lineIdx,
                   matched, credentials, afterDate, fetchLocals, renderVars,
                   fileVars, prevRender>>

\* A catch that reports the error and lets main go on.
MainCredCatch_NoExit ==
    /\ pc = "credCatch"
    /\ pc' = "credReturned"
    /\ UNCHANGED <<config, clock, run, exitCode, credLocals, credentials,
                   afterDate, fetchLocals, renderVars, fileVars, prevRender>>

\* main, lines 20-25: the catch around getGerritCredentials ends the process.
MainCredCatch ==
    /\ pc = "credCatch"
    /\ pc' = "exited"
    /\ exitCode' = 1
    /\ UNCHANGED <<config, clock, run, credLocals, credentials, afterDate,
                   fetchLocals, renderVars, fileVars, prevRender>>

\* ------------------------------------------------------- the review server

\* A revision with commit detail, and one without.
RevisionWithCommit(message) ==
    [_number |-> "1", commit |-> [message |-> message]]

RevisionWithoutCommit ==
    [_number |-> "1"]

ChangeBase(n, subject, submitted) ==
    [change_id |-> "I" \o n, subject |-> subject, project |-> "proj",
     branch |-> "main", submitted |-> submitted]

\* The changes the server knows: one with a commit message, and one for each
\* way the message can be missing (no current_revision, a current_revision
\* that is no key of revisions, a revision without commit, no revisions).
\* I1 and I3, and I5 and I6, were submitted at the same instant.
ChangeUniverse ==
    { ChangeBase("1", "Fix bug", "2024-01-02T10:00:00Z")
        @@ [current_revision |-> "abc",
            revisions |-> [abc |-> RevisionWithCommit("Fix bug\n\nDetails.")]],
      ChangeBase("3", "No current", "2024-01-02T10:00:00.000Z")
        @@ [revisions |-> [abc |-> RevisionWithCommit("No current")]],
      ChangeBase("4", "Other key", "2024-01-01T10:00:00Z")
        @@ [current_revision |-> "abc",
            revisions |-> [def |-> RevisionWithCommit("Other key")]],
      ChangeBase("5", "No commit", "2024-01-03T10:00:00.000Z")
        @@ [current_revision |-> "abc",
            revisions |-> [abc |-> RevisionWithoutCommit]],
      ChangeBase("6", "No revisions", "2024-01-03T10:00:00Z")
        @@ [current_revision |-> "abc"] }

\* Two changes: one with a commit message and one without.
SmallChangeUniverse ==
    { c \in ChangeUniverse : c.change_id \in {"I1", "I4"} }

\* The pages the server may answer a request with: at most `limit` changes of
\* `universe`, none of them handed out before, MaxTotal at most in all.
PagesFor(universe, limit, served) ==
    { page \in SeqsUpTo(universe, limit) :
        /\ Len(served) + Len(page) <= MaxTotal
        /\ \A i, j \in 1..Len(page) : page[i] = page[j] => i = j
        /\ \A i \in 1..Len(page), j \in 1..Len(served) : page[i] # served[j] }

Ch(c) == [ch |-> c]

\* The anti-sniffing prefix: )]}' and a newline.
XssiPrefix ==
    <<Ch(")"), Ch("]"), Ch("}"), Ch("'"), Ch(NL)>>

\* The bodies of a 200 response: the JSON array of the page, with or without
\* the prefix, or something that is not JSON.
BodiesFor(page) ==
    { XssiPrefix \o <<[json |-> page]>>, <<[json |-> page]>> }

NotJsonBody ==
    <<Ch("<"), Ch("h"), Ch(">")>>

\* -------------------------------------------------------- fetchMergedChanges

\* gerritApi.ts:86: the prefix is recognised by its 5 characters and 4 are cut.
StripPrefix(rawText) ==
    IF StartsWith(rawText, XssiPrefix) THEN Substring(rawText, 4) ELSE rawText

RECURSIVE SkipJsonWhitespace(_)
SkipJsonWhitespace(text) ==
    IF text # <<>> /\ text[1] \in { Ch(w) : w \in Whitespace }
    THEN SkipJsonWhitespace(Tail(text))
    ELSE text

\* JSON.parse accepts one value, with white space around it.
JsonParses(jsonText) ==
    LET rest == SkipJsonWhitespace(jsonText)
    IN  Len(rest) = 1 /\ "json" \in DOMAIN rest[1]

JsonParse(jsonText) ==
    SkipJsonWhitespace(jsonText)[1].json

NoResponse == [status |-> "", statusText |-> "", text |-> ""]

\* The responses with a status that is not a success.
ErrorResponses ==
    { [status |-> "403", statusText |-> "Forbidden", text |-> "Forbidden body"],
      [status |-> "500", statusText |-> "Server Error", text |-> "Oops"] }

\* A loop that goes on until a page comes back empty.
HasMoreAfter_UntilEmpty(changes, newStart) ==
    Len(changes) > 0

\* gerritApi.ts:99-104: whether the loop goes on after a page.
HasMoreAfter(changes, newStart) ==
    IF Len(changes) = 0 /\ newStart = 0
    THEN FALSE
    ELSE Len(changes) = API_FETCH_LIMIT

HttpErrorMessage(status, statusText, errorText) ==
    <<"Gerrit API error: ", status, " - ", statusText, "\nResponse body: ",
      errorText>>

Request ==
    [S |-> start, n |-> API_FETCH_LIMIT, after |-> afterDate, owner |-> CL_OWNER]

\* gerritApi.ts:70-111: a request answered 200; the body is decoded and the
\* page appended, or the body is no JSON and JSON.parse throws.
FetchPage(universe) ==
    /\ pc = "fetch"
    /\ hasMore
    /\ requests' = Append(requests, Request)
    /\ \/ \E page \in PagesFor(universe, API_FETCH_LIMIT, allChanges) :
          \E rawText \in BodiesFor(page) :
            LET jsonText == StripPrefix(rawText)
                changes == JsonParse(jsonText)
                newStart == IF Len(changes) > 0 THEN start + Len(changes)
                                                ELSE start
            IN  IF JsonParses(jsonText)
                THEN /\ allChanges' = IF Len(changes) > 0
                                      THEN allChanges \o changes
                                      ELSE allChanges
                     /\ start' = newStart
                     /\ hasMore' = HasMoreAfter(changes, newStart)
                     /\ pagesServed' = Append(pagesServed, page)
                     /\ UNCHANGED <<fetchError, pc>>
                ELSE /\ fetchError' = <<"SyntaxError: Unexpected token">>
                     /\ pc' = "mainCatch"
                     /\ UNCHANGED <<allChanges, start, hasMore, pagesServed>>
       \/ /\ ~JsonParses(StripPrefix(NotJsonBody))
          /\ fetchError' = <<"SyntaxError: Unexpected token">>
          /\ pc' = "mainCatch"
          /\ UNCHANGED <<allChanges, start, hasMore, pagesServed>>
    /\ UNCHANGED <<config, clock, run, exitCode, credLocals, credentials,
                   afterDate, failedResponse, renderVars, fileVars, prevRender>>

\* A fetcher that answers a failed page by returning what it has.
FetchHttpError_ReturnPartial ==
    /\ pc = "fetch"
    /\ hasMore
    /\ requests' = Append(requests, Request)
    /\ \E response \in ErrorResponses :
         failedResponse' = response
    /\ mergedChanges' = allChanges
    /\ pc' = "render"
    /\ UNCHANGED <<config, clock, run, exitCode, credLocals, credentials,
                   afterDate, allChanges, start, hasMore, pagesServed,
                   fetchError, markdownContent, renderedAt, warnings,
                   fileVars, prevRender>>

\* gerritApi.ts:78-81, 113-117: a response whose status is not a success.
FetchHttpError ==
    /\ pc = "fetch"
    /\ hasMore
    /\ requests' = Append(requests, Request)
    /\ \E response \in ErrorResponses :
         /\ failedResponse' = response
         /\ fetchError' = HttpErrorMessage(response.status,
                                           response.statusText, response.text)
    /\ pc' = "mainCatch"
    /\ UNCHANGED <<config, clock, run, exitCode, credLocals, credentials,
                   afterDate, allChanges, start, hasMore, pagesServed,
                   renderVars, fileVars, prevRender>>

\* gerritApi.ts:70, 113-117: fetch() itself rejects.
FetchNetworkFailure ==
    /\ pc = "fetch"
    /\ hasMore
    /\ requests' = Append(requests, Request)
    /\ fetchError' = <<"FetchError: request failed">>
    /\ pc' = "mainCatch"
    /\ UNCHANGED <<config, clock, run, exitCode, credLocals, credentials,
                   afterDate, allChanges, start, hasMore, pagesServed,
                   failedResponse, renderVars, fileVars, prevRender>>

\* gerritApi.ts:56, 120-121 and main, line 37: the loop ends and the
\* accumulated changes are returned to main.
FetchReturn ==
    /\ pc = "fetch"
    /\ ~hasMore
    /\ mergedChanges' = allChanges
    /\ pc' = "render"
    /\ UNCHANGED <<config, clock, run, exitCode, credLocals, credentials,
                   afterDate, fetchLocals, markdownContent, renderedAt,
                   warnings, fileVars, prevRender>>

\* ------------------------------------------------------------ dates (main)

\* The clock ticks this many times a second.
TicksPerSecond == 2

TicksPerDay == TicksPerSecond * 60 * 60 * 24

\* subDays(date, n)
SubDays(t, n) ==
    t - n * TicksPerDay

\* format(date, 'yyyy-MM-dd'): the day, as the number of days since the model's
\* epoch (rounded down).
FormatDate(t) ==
    IF t >= 0 THEN ToString(t \div TicksPerDay)
              ELSE "-" \o ToString((TicksPerDay - 1 - t) \div TicksPerDay)

\* format(date, 'yyyy-MM-dd HH:mm:ss'): the second, fractions of it dropped.
FormatDateTime(t) ==
    ToString(t \div TicksPerSecond)

\* new Date(s).getTime() for the timestamps of the server's changes, in
\* milliseconds since 2024-01-01T00:00:00Z.
DateGetTime(s) ==
    CASE s = "2024-01-01T10:00:00Z" -> 36000000
      [] s = "2024-01-02T10:00:00Z" -> 122400000
      [] s = "2024-01-02T10:00:00.000Z" -> 122400000
      [] s = "2024-01-03T10:00:00Z" -> 208800000
      [] s = "2024-01-03T10:00:00.000Z" -> 208800000

\* A bullet that shows the time of rendering for the time of submission.
ToLocaleString_Now(s) ==
    FormatDateTime(clock)

\* new Date(s).toLocaleString(), in the en-US locale and UTC.
ToLocaleString(s) ==
    CASE DateGetTime(s) = 36000000 -> "1/1/2024, 10:00:00 AM"
      [] DateGetTime(s) = 122400000 -> "1/2/2024, 10:00:00 AM"
      [] DateGetTime(s) = 208800000 -> "1/3/2024, 10:00:00 AM"

\* ------------------------------------------------------------------- main

\* A comparator with its operands the wrong way round.
CompareSubmitted_Ascending(a, b) ==
    DateGetTime(a.submitted) - DateGetTime(b.submitted)

\* index.ts:49: the comparator handed to sort.
CompareSubmitted(a, b) ==
    DateGetTime(b.submitted) - DateGetTime(a.submitted)

\* Array.prototype.sort is stable: an element goes behind every element that
\* does not compare greater than it.
RECURSIVE InsertSorted(_, _)
InsertSorted(sorted, x) ==
    IF sorted = <<>> THEN <<x>>
    ELSE IF CompareSubmitted(Head(sorted), x) > 0
         THEN <<x>> \o sorted
         ELSE <<Head(sorted)>> \o InsertSorted(Tail(sorted), x)

RECURSIVE SortChanges(_)
SortChanges(changes) ==
    IF changes = <<>> THEN <<>>
    ELSE InsertSorted(SortChanges(SubSeq(changes, 1, Len(changes) - 1)),
                      changes[Len(changes)])

\* index.ts:55-59: whether change.revisions?.[change.current_revision]?.commit
\* is there.
HasCommit(change) ==
    /\ "current_revision" \in DOMAIN change
    /\ change.current_revision # ""
    /\ "revisions" \in DOMAIN change
    /\ change.current_revision \in DOMAIN change.revisions
    /\ "commit" \in DOMAIN change.revisions[change.current_revision]

CommitMessage(change) ==
    change.revisions[change.current_revision].commit.message

\* index.ts:40-42
Header(now) ==
    << "# Merged Gerrit CL Commit Messages (Last ", ToString(DAYS_TO_LOOK_BACK),
       " Days)\n\n",
       "*Generated on: ", FormatDateTime(now), "*\n\n",
       "This document lists the commit messages (CL summary descriptions) from merged Gerrit Code Reviews submitted in the last ",
       ToString(DAYS_TO_LOOK_BACK), " days.\n\n" >>

\* The token that stands for one backquote of the document.
BQ == "<backquote>"

\* The three backquotes that open and close a fenced block.
Fence == BQ \o BQ \o BQ

\* index.ts:62-68 and 77-83: the heading and the bullets of a section.
SectionHead(change, server) ==
    << "---\n### ", change.subject,
       "\n* **Project:** ", BQ, change.project, BQ,
       "\n* **Branch:** ", BQ, change.branch, BQ,
       "\n* **Change-Id:** ", BQ, change.change_id, BQ,
       "\n* **Submitted:** ", BQ, ToLocaleString(change.submitted), BQ,
       "\n* **Gerrit Link:** <" >> \o server
       \o << "/c/", change.project, "/+/", change.change_id, ">\n" >>

Placeholder == "_Commit message could not be retrieved._\n\n"

\* A renderer that passes over a change without a commit message.
Section_SkipMissing(change, server) ==
    IF HasCommit(change)
    THEN SectionHead(change, server)
             \o << Fence, "\n", CommitMessage(change), "\n", Fence, "\n\n" >>
    ELSE <<>>

\* index.ts:59-87: the section of one change.
Section(change, server) ==
    IF HasCommit(change)
    THEN SectionHead(change, server)
             \o << Fence, "\n", CommitMessage(change), "\n", Fence, "\n\n" >>
    ELSE SectionHead(change, server) \o << Placeholder >>

RECURSIVE Sections(_, _)
Sections(changes, server) ==
    IF changes = <<>> THEN <<>>
    ELSE Section(Head(changes), server) \o Sections(Tail(changes), server)

\* index.ts:76: the changes console.warn is called for, in order.
RECURSIVE Warned(_)
Warned(changes) ==
    IF changes = <<>> THEN <<>>
    ELSE (IF HasCommit(Head(changes)) THEN <<>>
                                      ELSE <<Head(changes).change_id>>)
         \o Warned(Tail(changes))

NoRender == [input |-> <<>>, at |-> -1, doc |-> <<>>]

\* index.ts:28-37: the lower-bound date is computed and fetchMergedChanges is
\* entered (gerritApi.ts:49-54); the locals of getGerritCredentials are gone.
MainComputeDate ==
    /\ pc = "credReturned"
    /\ afterDate' = FormatDate(SubDays(clock, DAYS_TO_LOOK_BACK))
    /\ allChanges' = <<>>
    /\ start' = 0
    /\ hasMore' = TRUE
    /\ targetHost' = <<>>
    /\ lines' = <<>>
    /\ lineIdx' = 0
    /\ matched' = {}
    /\ pc' = "fetch"
    /\ UNCHANGED <<config, clock, run, exitCode, credFailure, credError,
                   credentials, requests, pagesServed, failedResponse,
                   fetchError, renderVars, fileVars, prevRender>>

\* index.ts:39-89: the document is assembled; sort reorders mergedChanges in
\* place.
MainRender ==
    /\ pc = "render"
    /\ LET sorted == IF Len(mergedChanges) = 0 THEN mergedChanges
                     ELSE SortChanges(mergedChanges)
       IN  /\ mergedChanges' = sorted
           /\ markdownContent' =
                Header(clock)
                \o (IF Len(mergedChanges) = 0
                    THEN << "No merged changes found for the specified period.\n" >>
                    ELSE Sections(sorted, GERRIT_SERVER_URL))
           /\ warnings' = Warned(sorted)
    /\ renderedAt' = clock
    /\ pc' = "write"
    /\ UNCHANGED <<config, clock, run, exitCode, credLocals, credentials,
                   afterDate, fetchLocals, fileVars, prevRender>>

\* index.ts:92-93: the file is written.
MainWrite ==
    /\ pc = "write"
    /\ outputFile' = markdownContent
    /\ writes' = writes + 1
    /\ pc' = "done"
    /\ UNCHANGED <<config, clock, run, exitCode, credLocals, credentials,
                   afterDate, fetchLocals, renderVars, prevRender>>

\* index.ts:92, 95: writeFileSync cannot open the file and throws.
MainWriteFail ==
    /\ pc = "write"
    /\ pc' = "mainCatch"
    /\ UNCHANGED <<config, clock, run, exitCode, credLocals, credentials,
                   afterDate, fetchLocals, renderVars, fileVars, prevRender>>

\* A catch that logs the error and lets the process end normally.
MainCatch_NoExit ==
    /\ pc = "mainCatch"
    /\ pc' = "exited"
    /\ exitCode' = 0
    /\ UNCHANGED <<config, clock, run, credLocals, credentials, afterDate,
                   fetchLocals, renderVars, fileVars, prevRender>>

\* index.ts:95-99: the catch around fetch, render and write ends the process.
MainCatch ==
    /\ pc = "mainCatch"
    /\ pc' = "exited"
    /\ exitCode' = 1
    /\ UNCHANGED <<config, clock, run, credLocals, credentials, afterDate,
                   fetchLocals, renderVars, fileVars, prevRender>>

\* index.ts:100-103: main returns and the process ends with status 0.
MainExit ==
    /\ pc = "done"
    /\ pc' = "exited"
    /\ exitCode' = 0
    /\ UNCHANGED <<config, clock, run, credLocals, credentials, afterDate,
                   fetchLocals, renderVars, fileVars, prevRender>>

\* Time passes; it shows only where main reads the clock next (index.ts:30,
\* 41), so the clock is advanced there.
Tick ==
    /\ pc \in {"credReturned", "render"}
    /\ clock < MaxClock
    /\ clock' = clock + 1
    /\ UNCHANGED <<config, run, pc, exitCode, credLocals, credentials,
                   afterDate, fetchLocals, renderVars, fileVars, prevRender>>

\* The state of a process that has just been started (index.ts:103).
Fresh ==
    /\ pc = "start"
    /\ exitCode = -1
    /\ targetHost = <<>>
    /\ lines = <<>>
    /\ lineIdx = 0
    /\ matched = {}
    /\ credFailure = "none"
    /\ credError = <<>>
    /\ credentials = NoCredentials
    /\ afterDate = ""
    /\ allChanges = <<>>
    /\ start = 0
    /\ hasMore = FALSE
    /\ requests = <<>>
    /\ pagesServed = <<>>
    /\ failedResponse = NoResponse
    /\ fetchError = <<>>
    /\ mergedChanges = <<>>
    /\ markdownContent = <<>>
    /\ renderedAt = -1
    /\ warnings = <<>>
    /\ writes = 0

\* The program is started again, with the same configuration; the output
\* file of the run before is still there.
Restart ==
    /\ pc = "exited"
    /\ run < MaxRuns
    /\ run' = run + 1
    /\ prevRender' = IF renderedAt >= 0
                     THEN [input |-> allChanges, at |-> renderedAt,
                           doc |-> markdownContent]
                     ELSE prevRender
    /\ pc' = "start"
    /\ exitCode' = -1
    /\ targetHost' = <<>>
    /\ lines' = <<>>
    /\ lineIdx' = 0
    /\ matched' = {}
    /\ credFailure' = "none"
    /\ credError' = <<>>
    /\ credentials' = NoCredentials
    /\ afterDate' = ""
    /\ allChanges' = <<>>
    /\ start' = 0
    /\ hasMore' = FALSE
    /\ requests' = <<>>
    /\ pagesServed' = <<>>
    /\ failedResponse' = NoResponse
    /\ fetchError' = <<>>
    /\ mergedChanges' = <<>>
    /\ markdownContent' = <<>>
    /\ renderedAt' = -1
    /\ warnings' = <<>>
    /\ writes' = 0
    /\ UNCHANGED <<config, clock, outputFile>>

Init ==
    /\ GERRIT_SERVER_URL \in UrlUniverse
    /\ API_FETCH_LIMIT \in 1..MaxPageSize
    /\ clock = 0
    /\ run = 1
    /\ outputFile = <<>>
    /\ prevRender = NoRender
    /\ Fresh

Next ==
    \/ CredParseUrl
    \/ CredReadFile(FileUniverse)
    \/ CredLine
    \/ CredNotFound
    \/ MainCredCatch
    \/ MainComputeDate
    \/ FetchPage(ChangeUniverse)
    \/ FetchHttpError
    \/ FetchNetworkFailure
    \/ FetchReturn
    \/ MainRender
    \/ MainWrite
    \/ MainWriteFail
    \/ MainCatch
    \/ MainExit
    \/ Tick

Spec == Init /\ [][Next]_vars

\* The program started up to MaxRuns times against a small server and one of
\* two .gitcookies files.
InitRerun ==
    Init

NextRerun ==
    \/ CredParseUrl
    \/ CredReadFile(SmallFileUniverse)
    \/ CredLine
    \/ CredNotFound
    \/ MainCredCatch
    \/ MainComputeDate
    \/ FetchPage(SmallChangeUniverse)
    \/ FetchHttpError
    \/ FetchNetworkFailure
    \/ FetchReturn
    \/ MainRender
    \/ MainWrite
    \/ MainWriteFail
    \/ MainCatch
    \/ MainExit
    \/ Tick
    \/ Restart

SpecRerun == InitRerun /\ [][NextRerun]_vars

\* ----------------------------------------------------------------- claims

RECURSIVE Flatten(_)
Flatten(pages) ==
    IF pages = <<>> THEN <<>> ELSE Head(pages) \o Flatten(Tail(pages))

\* The changes the server handed out in this run, in the order it did.
Served == Flatten(pagesServed)

FullPages == { i \in DOMAIN pagesServed : Len(pagesServed[i]) = API_FETCH_LIMIT }

\* C1: the fetcher asks for a further page exactly as long as every page so
\* far was full; when it returns, the server has answered n full pages and
\* then one shorter page (possibly empty), n+1 requests were issued, at the
\* offsets 0, S, 2S, ..., no error was raised, and the result is the pages'
\* n*S+k changes in the order served.
C1_Pagination ==
    /\ pc = "fetch" => (hasMore <=> FullPages = DOMAIN pagesServed)
    /\ pc = "render" =>
         LET n == Cardinality(FullPages)
             k == Len(pagesServed[Len(pagesServed)])
         IN  /\ fetchError = <<>>
             /\ pagesServed # <<>>
             /\ FullPages = 1..(Len(pagesServed) - 1)
             /\ k < API_FETCH_LIMIT
             /\ Len(requests) = n + 1
             /\ \A i \in DOMAIN requests :
                    /\ requests[i].S = (i - 1) * API_FETCH_LIMIT
                    /\ requests[i].n = API_FETCH_LIMIT
             /\ mergedChanges = Served
             /\ Len(mergedChanges) = n * API_FETCH_LIMIT + k

\* Two full pages and a shorter, non-empty one have been returned.
C1_Witness ==
    /\ pc = "render"
    /\ API_FETCH_LIMIT = 2
    /\ Len(pagesServed) = 3
    /\ Len(mergedChanges) = 5

\* C2: once a response with a non-success status has come, whatever the number
\* of pages before it, the call has failed with an error that carries the
\* status and the body, main holds no change and has rendered nothing, and the
\* failed request is the last one issued.
C2_HttpErrorAborts ==
    failedResponse # NoResponse =>
        /\ pc \in {"mainCatch", "exited"}
        /\ Includes(fetchError, <<failedResponse.status>>)
        /\ Includes(fetchError, <<failedResponse.text>>)
        /\ mergedChanges = <<>>
        /\ markdownContent = <<>>
        /\ Len(requests) = Len(pagesServed) + 1

\* A page fails after two pages were accumulated.
C2_Witness ==
    /\ failedResponse # NoResponse
    /\ Len(pagesServed) = 2
    /\ allChanges # <<>>
    /\ pc = "exited"

\* C3: once credential resolution has failed, no request has been issued, the
\* next step is the exit, and the exit status is not 0.
C3_NoFetchAfterCredentialFailure ==
    credFailure # "none" =>
        /\ requests = <<>>
        /\ pc \in {"credCatch", "exited"}
        /\ pc = "credCatch" => ENABLED MainCredCatch
        /\ pc = "exited" => exitCode > 0

\* The process has ended after no record was found in a two-line file.
C3_Witness ==
    /\ credFailure = "no_record"
    /\ Len(lines) = 2
    /\ pc = "exited"
    /\ exitCode = 1

\* C4: the output file is written at most once in a run, and only after the
\* fetcher has returned from a last, short page without an error; a run with
\* a failed request leaves no output file and ends with a non-zero status; a
\* run ends with status 0 only after it wrote the file.
C4_OutputOnlyAfterFullFetch ==
    /\ writes <= 1
    /\ writes = 1 =>
         /\ fetchError = <<>>
         /\ pagesServed # <<>>
         /\ Len(pagesServed[Len(pagesServed)]) < API_FETCH_LIMIT
         /\ renderedAt >= 0
         /\ outputFile = markdownContent
    /\ fetchError # <<>> =>
         /\ writes = 0
         /\ outputFile = <<>>
         /\ pc \in {"mainCatch", "exited"}
         /\ pc = "exited" => exitCode > 0
    /\ exitCode = 0 => writes = 1

\* A run has ended after a request failed behind a full page.
C4_Witness ==
    /\ pc = "exited"
    /\ fetchError # <<>>
    /\ pagesServed # <<>>
    /\ exitCode = 1

\* --- reading the document back

RECURSIVE Ascending(_)
Ascending(S) ==
    IF S = {} THEN <<>>
    ELSE LET m == CHOOSE x \in S : \A y \in S : x <= y
         IN  <<m>> \o Ascending(S \ {m})

\* Where the sections of a document start, and where the one at i ends.
SectionStarts(doc) ==
    { i \in DOMAIN doc : doc[i] = "---\n### " }

SectionEnd(doc, i) ==
    LET later == { j \in SectionStarts(doc) : j > i }
    IN  IF later = {} THEN Len(doc)
        ELSE (CHOOSE j \in later : \A m \in later : j <= m) - 1

\* The sections of a document, in its order.
RenderedSections(doc) ==
    LET starts == Ascending(SectionStarts(doc))
    IN  [n \in DOMAIN starts |->
            SubSeq(doc, starts[n], SectionEnd(doc, starts[n]))]

\* The Change-Id a section shows.
SectionChangeId(section) ==
    LET k == CHOOSE k \in DOMAIN section : section[k] = "\n* **Change-Id:** "
    IN  section[k + 2]

RenderedIds(doc) ==
    LET sections == RenderedSections(doc)
    IN  [n \in DOMAIN sections |-> SectionChangeId(sections[n])]

Rendered == renderedAt >= 0

\* Where a change stands in a sequence of changes, and when it was submitted.
PlaceIn(changes, id) ==
    CHOOSE i \in DOMAIN changes : changes[i].change_id = id

SubmittedAt(changes, id) ==
    DateGetTime(changes[PlaceIn(changes, id)].submitted)

\* C5: of a non-empty result every change is rendered in exactly one section,
\* the sections are in non-increasing order of submission time, and sections
\* of changes submitted at the same instant are in the order the fetcher
\* returned the changes.
C5_SortedStable ==
    (pc = "write" /\ pagesServed # <<<<>>>>) =>
        LET served == Served
            ids == RenderedIds(markdownContent)
        IN  /\ Len(ids) = Len(served)
            /\ \A i \in DOMAIN served :
                   Cardinality({ n \in DOMAIN ids :
                                    ids[n] = served[i].change_id }) = 1
            /\ \A m, n \in DOMAIN ids :
                   m < n =>
                     /\ SubmittedAt(served, ids[m]) >= SubmittedAt(served, ids[n])
                     /\ SubmittedAt(served, ids[m]) = SubmittedAt(served, ids[n])
                            => PlaceIn(served, ids[m]) < PlaceIn(served, ids[n])

\* Five changes, returned oldest first with two ties, have been rendered.
C5_Witness ==
    /\ pc = "write"
    /\ [i \in DOMAIN Served |-> Served[i].change_id]
           = <<"I4", "I3", "I5", "I1", "I6">>
    /\ RenderedIds(markdownContent) = <<"I5", "I6", "I3", "I1", "I4">>

\* The change has no current revision, or the current revision is no key of
\* its revisions (or it has no revisions), or the revision has no commit.
MessageMissing(c) ==
    \/ "current_revision" \notin DOMAIN c
    \/ "revisions" \notin DOMAIN c
    \/ c.current_revision \notin DOMAIN c.revisions
    \/ "commit" \notin DOMAIN c.revisions[c.current_revision]

\* The section shows the metadata bullets of the change.
ShowsMetadata(section, c) ==
    /\ SubSeq(section, 1, 2) = <<"---\n### ", c.subject>>
    /\ Includes(section, <<"\n* **Project:** ", BQ, c.project, BQ>>)
    /\ Includes(section, <<"\n* **Branch:** ", BQ, c.branch, BQ>>)
    /\ Includes(section, <<"\n* **Change-Id:** ", BQ, c.change_id, BQ>>)
    /\ Includes(section, <<"\n* **Submitted:** ", BQ,
                           ToLocaleString(c.submitted), BQ>>)
    /\ Includes(section, <<"\n* **Gerrit Link:** <">> \o GERRIT_SERVER_URL
                           \o <<"/c/", c.project, "/+/", c.change_id, ">\n">>)

\* C6: a change without a resolvable commit message is rendered as its
\* metadata bullets followed by the placeholder line, with a warning, and the
\* run goes on: every change returned has its own section (one with a message
\* shows it in a fenced block), the file is written next, and a run that wrote
\* the file ends with status 0.
C6_MissingMessagePlaceholder ==
    Rendered =>
        LET secs == RenderedSections(markdownContent)
            served == Served
        IN  /\ pc = "write" => \A i \in DOMAIN served :
                 LET c == served[i]
                     mine == { n \in DOMAIN secs :
                                 SectionChangeId(secs[n]) = c.change_id }
                 IN  /\ Cardinality(mine) = 1
                     /\ \A n \in mine :
                          /\ ShowsMetadata(secs[n], c)
                          /\ MessageMissing(c) =>
                               /\ secs[n][Len(secs[n])] = Placeholder
                               /\ secs[n][Len(secs[n]) - 1] = ">\n"
                               /\ ~Includes(secs[n], <<Fence>>)
                               /\ Includes(warnings, <<c.change_id>>)
                          /\ ~MessageMissing(c) =>
                               /\ Includes(secs[n],
                                     <<">\n", Fence, "\n",
                                       c.revisions[c.current_revision].commit.message,
                                       "\n", Fence, "\n\n">>)
                               /\ ~Includes(warnings, <<c.change_id>>)
            /\ fetchError = <<>>
            /\ pc = "write" => ENABLED MainWrite
            /\ writes = 1 => outputFile = markdownContent
            /\ (pc = "exited" /\ writes = 1) => exitCode = 0

\* A run that rendered one change with a message and one change for each way
\* of lacking one has written the file and ended with status 0.
C6_Witness ==
    /\ pc = "exited"
    /\ exitCode = 0
    /\ writes = 1
    /\ Len(allChanges) = 5
    /\ Len(warnings) = 4
    /\ Len(RenderedSections(outputFile)) = 5

\* --- the .gitcookies rules, as the specification words them

FieldCount(line) ==
    1 + Cardinality({ i \in DOMAIN line : line[i] = TAB })

\* The n-th tab-separated field of a line that has one.
Field(line, n) ==
    LET tabs == Ascending({ i \in DOMAIN line : line[i] = TAB })
        from == IF n = 1 THEN 1 ELSE tabs[n - 1] + 1
        to == IF n > Len(tabs) THEN Len(line) ELSE tabs[n] - 1
    IN  SubSeq(line, from, to)

IsComment(line) ==
    line # <<>> /\ line[1] = "#"

IsBlank(line) ==
    \A i \in DOMAIN line : line[i] \in Whitespace

\* The selection rule of the specification, section 4.1.
RecordMatches(line, host) ==
    /\ FieldCount(line) = 7
    /\ ~IsComment(line)
    /\ ~IsBlank(line)
    /\ LET pattern == Field(line, 1)
           dotted == pattern # <<>> /\ pattern[1] = "."
       IN  \/ ~dotted /\ pattern = host
           \/ /\ dotted
              /\ \/ host = Tail(pattern)
                 \/ /\ Len(host) >= Len(pattern)
                    /\ \A k \in 1..Len(pattern) :
                           host[Len(host) - Len(pattern) + k] = pattern[k]

\* The lines the loop has dealt with: those before lineIdx, and the one the
\* function returned from.
Processed ==
    { i \in DOMAIN lines : i < lineIdx \/ (i = lineIdx /\ pc = "credReturned") }

\* The text before the first "=" and the text behind it.
BeforeFirst(text, c) ==
    LET at == { i \in DOMAIN text : text[i] = c }
    IN  IF at = {} THEN text
        ELSE SubSeq(text, 1, (CHOOSE i \in at : \A j \in at : i <= j) - 1)

AfterFirst(text, c) ==
    LET at == { i \in DOMAIN text : text[i] = c }
    IN  IF at = {} THEN <<>>
        ELSE SubSeq(text, (CHOOSE i \in at : \A j \in at : i <= j) + 1,
                    Len(text))

\* The matching records whose cookie name is "o".
MatchingORecords ==
    { i \in DOMAIN lines :
        RecordMatches(lines[i], targetHost) /\ Field(lines[i], 6) = <<"o">> }

\* C7: the credential returned is that of the first matching record whose
\* cookie name is "o": its value split at the first "=" only, the user name
\* before it and all of the rest, further "=" included, the token.
C7_FirstRecordSplitAtFirstEquals ==
    pc = "credReturned" =>
        /\ MatchingORecords # {}
        /\ LET first == CHOOSE i \in MatchingORecords :
                            \A j \in MatchingORecords : i <= j
               value == Field(lines[first], 7)
           IN  /\ lineIdx = first
               /\ credentials.username = BeforeFirst(value, "=")
               /\ credentials.httpPassword = AfterFirst(value, "=")

\* The pieces every example of a record is made of, behind the host.
ExampleShape ==
    <<TAB, "TRUE", TAB, "/", TAB, "TRUE", TAB, "<timestamp>", TAB, "o", TAB,
      "<username>=<password>">>

\* C8 as stated: whichever of the three failures occurred, the error message
\* includes the resolved target host and an example of a record.
C8_EveryFailureNamesHostAndExample ==
    credFailure # "none" =>
        /\ credError # <<>>
        /\ targetHost # <<>>
        /\ Includes(credError, targetHost)
        /\ Includes(credError, targetHost \o ExampleShape)

\* C8, amended: each of the three failures raises an error; when the file is
\* missing or no record matches, the message includes the resolved host and
\* an example record for that host; when the URL cannot be parsed, no host
\* was resolved, and the message includes the URL and no example.
C8_FailureMessages ==
    /\ credFailure # "none" =>
         /\ credError # <<>>
         /\ pc \in {"credCatch", "exited"}
         /\ credentials = NoCredentials
    /\ credFailure \in {"no_file", "no_record"} =>
         /\ UrlParses(GERRIT_SERVER_URL)
         /\ targetHost # <<>>
         /\ Includes(credError, targetHost)
         /\ Includes(credError, targetHost \o ExampleShape)
    /\ credFailure = "bad_url" =>
         /\ targetHost = <<>>
         /\ Includes(credError, GERRIT_SERVER_URL)
         /\ ~Includes(credError, ExampleShape)

\* No record was found in a file of two lines, for a URL with an upper-case
\* host.
C8_Witness ==
    /\ credFailure = "no_record"
    /\ Len(lines) = 2
    /\ GERRIT_SERVER_URL = <<"https://", "A", ".", "b", "/">>
    /\ pc = "credCatch"

\* C10: a line the loop has dealt with was taken to match the host exactly if
\* it has 7 tab-separated fields, is no comment and not blank, and its domain
\* pattern equals the host (no leading dot), or is the host behind a dot, or is
\* a dotted suffix of the host; a credential comes only from such a line.
C10_HostMatching ==
    /\ \A i \in Processed :
           i \in matched <=> RecordMatches(lines[i], targetHost)
    /\ pc = "credReturned" =>
           /\ RecordMatches(lines[lineIdx], targetHost)
           /\ lineIdx \in matched

\* The credential came from the second line, matched as a dotted suffix,
\* behind a line that also matched.
C10_Witness ==
    /\ pc = "credReturned"
    /\ lineIdx = 2
    /\ matched = {1, 2}
    /\ Field(lines[2], 1) = <<".", "b">>

\* --- two runs over the same result

\* A document with the time in its "Generated on" line blanked.
WithoutGenerated(doc) ==
    [i \in DOMAIN doc |->
        IF i > 1 /\ doc[i - 1] = "*Generated on: " THEN "" ELSE doc[i]]

\* The second of the wall clock a tick lies in.
SecondOf(t) ==
    t \div TicksPerSecond

\* This run and the run before both rendered, from the same changes in the
\* same order.
SameInputTwice ==
    /\ prevRender.at >= 0
    /\ Rendered
    /\ prevRender.input = Served

====
